---- MODULE Spec2Model ----
(***************************************************************************)
(* Model of check_withdrawal_time.py: a single-pass command line tool that *)
(* asks a beacon node for the chain parameters and for validators' state,  *)
(* converts epochs to wall-clock time and emits a CSV file or a report.    *)
(*                                                                         *)
(* Python integers are unbounded, and FAR_FUTURE (10^11) and the           *)
(* timestamps derived from it exceed 32-bit machine integers, so an        *)
(* integer that can be large is kept as a tuple of NumLimbs limbs in base  *)
(* 1000, least significant first; the limbs below the top one are in       *)
(* 0..999 and the top limb carries the sign. The representation is         *)
(* canonical: two such tuples are equal iff the integers are.              *)
(*                                                                         *)
(* What the tool prints on the way (progress, diagnostics) and the         *)
(* optional sleep between two validators change nothing the model keeps;   *)
(* the exits, the CSV file and the report are kept.                        *)
(***************************************************************************)
EXTENDS Integers, Sequences, FiniteSets, TLC

\* ------------------------------------------------------------------ bounds

NumLimbs == 7
MaxOps == 2
MaxKeys == 3
MaxMapEntries == 2

\* --------------------------------------------------- unbounded integers

Limbs == 1..NumLimbs

RECURSIVE Carry(_, _, _)
Carry(f, i, c) ==
    IF i = NumLimbs THEN <<f[i] + c>>
    ELSE LET x == f[i] + c IN <<x % 1000>> \o Carry(f, i + 1, x \div 1000)

Normalize(f) == Carry(f, 1, 0)

\* The integer written in groups of three digits, most significant first:
\* Big(<<38, 400>>) is 38,400.
Big(groups) ==
    [i \in Limbs |-> IF i <= Len(groups) THEN groups[Len(groups) - i + 1] ELSE 0]

BigFromInt(n) == Normalize([i \in Limbs |-> IF i = 1 THEN n ELSE 0])
BigZero == [i \in Limbs |-> 0]
BigAdd(a, b) == Normalize([i \in Limbs |-> a[i] + b[i]])
BigSub(a, b) == Normalize([i \in Limbs |-> a[i] - b[i]])
BigMul(a, k) == Normalize([i \in Limbs |-> a[i] * k])
BigIsNeg(a) == a[NumLimbs] < 0
BigIsPos(a) == ~BigIsNeg(a) /\ a # BigZero
BigLess(a, b) == BigIsNeg(BigSub(a, b))
BigLeq(a, b) == ~BigLess(b, a)
BigGreater(a, b) == BigLess(b, a)

\* -------------------------------------------------------- Python values

PyNone == [t |-> "None"]
PyInt(n) == [t |-> "int", v |-> n]
\* A str the program only passes on or prints, and a str it inspects
\* (a public key, an identifier), kept as its sequence of characters.
PyStr(s) == [t |-> "str", v |-> s]
PyChars(s) == [t |-> "chars", v |-> s]
\* A key a dict does not hold.
Absent == [t |-> "absent"]
\* A JSON string holding the decimal digits of n, and one int() rejects.
Decimal(n) == [t |-> "decimal", v |-> n]
NotAnInteger == [t |-> "text"]
\* dict[key] followed by int(): KeyError for a missing key, ValueError for a
\* string that is no integer, the number otherwise.
int_(x) ==
    CASE x.t = "absent" -> [raised |-> "KeyError"]
      [] x.t = "text" -> [raised |-> "ValueError"]
      [] OTHER -> [raised |-> "", v |-> x.v]
\* Python truthiness of the values the program tests with `not x` / `if x`.
Truthy(x) ==
    CASE x.t = "None" -> FALSE
      [] x.t = "int" -> x.v # 0
      [] x.t = "str" -> x.v # ""
      [] x.t = "chars" -> x.v # <<>>
      [] x.t = "emptydict" -> FALSE
      [] OTHER -> TRUE

\* str.lower(), on strings kept as sequences of characters.
LowerChar(c) == CASE c = "A" -> "a" [] c = "B" -> "b" [] OTHER -> c
Lower(s) == [j \in DOMAIN s |-> LowerChar(s[j])]

\* ------------------------------------------------------------- fetchers

\* Variant: a failed request falls back to default parameters.
get_chain_config_Defaults(resp) ==
    IF resp.kind # "ok"
    THEN [t |-> "dict", SECONDS_PER_SLOT |-> 12, SLOTS_PER_EPOCH |-> 32,
          GENESIS_TIME |-> PyNone]
    ELSE LET sps == int_(resp.SECONDS_PER_SLOT)
             spe == int_(resp.SLOTS_PER_EPOCH)
         IN IF sps.raised # "" \/ spe.raised # "" THEN PyNone
            ELSE [t |-> "dict", SECONDS_PER_SLOT |-> sps.v,
                  SLOTS_PER_EPOCH |-> spe.v, GENESIS_TIME |-> PyNone]

\* get_chain_config on the node's answer: any failure of the request, of the
\* status check, of the JSON body or of an int() conversion returns None.
get_chain_config(resp) ==
    IF resp.kind # "ok" THEN PyNone
    ELSE LET sps == int_(resp.SECONDS_PER_SLOT)
             spe == int_(resp.SLOTS_PER_EPOCH)
         IN IF sps.raised # "" \/ spe.raised # "" THEN PyNone
            ELSE [t |-> "dict", SECONDS_PER_SLOT |-> sps.v,
                  SLOTS_PER_EPOCH |-> spe.v, GENESIS_TIME |-> PyNone]

\* get_genesis_time on the node's answer.
get_genesis_time(resp) ==
    IF resp.kind # "ok" THEN PyNone
    ELSE LET g == int_(resp.genesis_time)
         IN IF g.raised # "" THEN PyNone ELSE PyInt(g.v)

\* fetch_validator_data on the node's answer: the body's data, or None for a
\* 404, any other HTTP error and any other exception.
fetch_validator_data(resp) ==
    IF resp.kind = "ok" THEN resp.data ELSE PyNone

\* ----------------------------------------------------------- calculator

FAR_FUTURE == Big(<<100, 0, 0, 0>>)
\* One GNO in the unit of effective_balance.
GnoUnit == Big(<<32, 0, 0, 0>>)
\* datetime.fromtimestamp(ts, tz=utc) covers the years 1..9999 and raises
\* outside them.
DatetimeMin == BigSub(BigZero, Big(<<62, 135, 596, 800>>))
DatetimeMax == Big(<<253, 402, 300, 799>>)
fromtimestamp(ts) ==
    IF BigLess(ts, DatetimeMin) \/ BigGreater(ts, DatetimeMax)
    THEN [raised |-> "OverflowError"]
    ELSE [raised |-> "", dt |-> ts]
\* datetime.isoformat(): the text of the instant.
isoformat(dt) == [t |-> "iso", v |-> dt]
\* withdrawal_dt - now, in microseconds; now is [sec, us].
timedelta(dt, now) ==
    BigSub(BigMul(BigMul(BigSub(dt, BigFromInt(now.sec)), 1000), 1000),
           BigFromInt(now.us))

Raise(exc, ts) == [raised |-> exc, value |-> PyNone, withdrawal_timestamp |-> ts]
Return(r, ts) == [raised |-> "", value |-> r, withdrawal_timestamp |-> ts]

\* Variant: the epoch is scaled by the slots only.
EpochTimestamp_SlotsOnly(genesis_time, epoch, slots_per_epoch, seconds_per_slot) ==
    BigAdd(BigFromInt(genesis_time), BigMul(epoch, slots_per_epoch))

\* genesis_time + (epoch * slots_per_epoch * seconds_per_slot)
EpochTimestamp(genesis_time, epoch, slots_per_epoch, seconds_per_slot) ==
    BigAdd(BigFromInt(genesis_time),
           BigMul(BigMul(epoch, slots_per_epoch), seconds_per_slot))

IsPendingEpoch(withdrawable_epoch) == BigGreater(withdrawable_epoch, FAR_FUTURE)
IsExitScheduled(exit_epoch) == BigLess(exit_epoch, FAR_FUTURE)
\* Variant: a remaining time of zero still counts as pending.
IsStillPending_NonStrict(time_remaining) == ~BigIsNeg(time_remaining)
IsStillPending(time_remaining) == BigIsPos(time_remaining)

\* The branch of a validator whose withdrawable epoch is not set.
PendingResult(result, exit_epoch, genesis_time, slots_per_epoch, seconds_per_slot) ==
    LET pending == [result EXCEPT !.withdrawable_epoch = PyStr("Pending"),
                                  !.withdrawable_time_iso = PyStr("N/A")]
    IN IF IsExitScheduled(exit_epoch)
       THEN LET exit_timestamp ==
                    EpochTimestamp(genesis_time, exit_epoch, slots_per_epoch,
                                   seconds_per_slot)
                exit_dt == fromtimestamp(exit_timestamp)
            IN IF exit_dt.raised # "" THEN Raise(exit_dt.raised, PyNone)
               ELSE Return([pending EXCEPT
                              !.note = [t |-> "exit_note", v |-> isoformat(exit_dt.dt)]],
                           PyNone)
       ELSE Return([pending EXCEPT !.note = PyStr("Active (not exited)")], PyNone)

\* The branch of a validator whose withdrawable epoch is set.
ScheduledResult(result, validator, withdrawable_epoch, genesis_time, slots_per_epoch, seconds_per_slot, now) ==
    LET withdrawal_timestamp ==
            EpochTimestamp(genesis_time, withdrawable_epoch, slots_per_epoch,
                           seconds_per_slot)
        ts == [t |-> "int", v |-> withdrawal_timestamp]
        withdrawal_dt == fromtimestamp(withdrawal_timestamp)
    IN IF withdrawal_dt.raised # "" THEN Raise(withdrawal_dt.raised, ts)
       ELSE
       LET time_remaining == timedelta(withdrawal_dt.dt, now)
           timed == [result EXCEPT
                       !.withdrawable_time_iso = isoformat(withdrawal_dt.dt)]
           classified ==
               IF IsStillPending(time_remaining)
               THEN [timed EXCEPT
                       !.time_remaining = [t |-> "timedelta", us |-> time_remaining],
                       !.is_withdrawable = FALSE]
               ELSE [timed EXCEPT
                       !.time_remaining = PyStr("0:00:00"),
                       !.is_withdrawable = TRUE,
                       !.note = PyStr("Eligible for sweep")]
           eff_bal_raw ==
               IF validator.effective_balance.t = "absent"
               THEN [raised |-> "", v |-> BigZero]
               ELSE int_(validator.effective_balance)
       IN IF eff_bal_raw.raised # "" THEN Raise(eff_bal_raw.raised, ts)
          ELSE Return([classified EXCEPT
                         !.effective_balance_gno =
                             [t |-> "float", num |-> eff_bal_raw.v, den |-> GnoUnit]],
                      ts)

\* calculate_withdrawal_info, with the clock it reads as a parameter. The
\* outcome names the exception that escapes it ("" for none), the value it
\* returns and its local withdrawal_timestamp (None where not computed).
calculate_withdrawal_info(validator_data, genesis_time, slots_per_epoch, seconds_per_slot, now) ==
    IF ~Truthy(validator_data) THEN Return(PyNone, PyNone)
    ELSE IF validator_data.validator.t = "absent" THEN Raise("KeyError", PyNone)
    ELSE IF validator_data.status.t = "absent" THEN Raise("KeyError", PyNone)
    ELSE IF validator_data.index.t = "absent" THEN Raise("KeyError", PyNone)
    ELSE IF validator_data.validator.pubkey.t = "absent" THEN Raise("KeyError", PyNone)
    ELSE
    LET validator == validator_data.validator
        exit_epoch == int_(validator.exit_epoch)
        withdrawable_epoch == int_(validator.withdrawable_epoch)
    IN IF exit_epoch.raised # "" THEN Raise(exit_epoch.raised, PyNone)
       ELSE IF withdrawable_epoch.raised # "" THEN Raise(withdrawable_epoch.raised, PyNone)
       ELSE
       LET result == [t |-> "dict",
                      pubkey |-> validator.pubkey,
                      index |-> validator_data.index,
                      status |-> validator_data.status,
                      withdrawable_epoch |-> [t |-> "int", v |-> withdrawable_epoch.v],
                      withdrawable_time_iso |-> PyNone,
                      time_remaining |-> PyNone,
                      is_withdrawable |-> FALSE,
                      note |-> Absent,
                      effective_balance_gno |-> Absent]
       IN IF IsPendingEpoch(withdrawable_epoch.v)
          THEN PendingResult(result, exit_epoch.v, genesis_time, slots_per_epoch,
                             seconds_per_slot)
          ELSE ScheduledResult(result, validator, withdrawable_epoch.v, genesis_time,
                               slots_per_epoch, seconds_per_slot, now)

\* --------------------------------------------------------- file loaders

RECURSIVE CollectKeys(_)
\* The loop of load_keys_from_yaml: the keys of every operator that has a
\* keys list, in file order.
CollectKeys(operators) ==
    IF operators = <<>> THEN <<>>
    ELSE LET op == Head(operators)
         IN (IF op.has_keys THEN op.keys ELSE <<>>) \o CollectKeys(Tail(operators))

\* k.lower() for k in keys, outside the try block: a key that is no string
\* has no lower() and raises AttributeError.
NormalizeKeys(keys) ==
    IF \E j \in DOMAIN keys : keys[j].t # "chars"
    THEN [raised |-> "AttributeError", value |-> <<>>]
    ELSE [raised |-> "", value |-> [j \in DOMAIN keys |-> Lower(keys[j].v)]]

\* load_keys_from_yaml on the file's content.
load_keys_from_yaml(file) ==
    IF file.kind # "doc" THEN [raised |-> "", value |-> <<>>]
    ELSE IF ~file.has_operators THEN [raised |-> "", value |-> <<>>]
    ELSE NormalizeKeys(CollectKeys(file.operators))

RECURSIVE FillMapping(_, _)
\* The loop of load_index_map_from_json: later entries overwrite earlier ones.
FillMapping(validators, mapping) ==
    IF validators = <<>> THEN mapping
    ELSE LET v == Head(validators)
             pubkey == IF v.pubkey.t = "absent" THEN <<>> ELSE Lower(v.pubkey.v)
             index == IF v.index.t = "absent" THEN PyNone ELSE v.index
             next == IF pubkey # <<>> /\ index.t # "None"
                     THEN [k \in DOMAIN mapping \cup {pubkey} |->
                             IF k = pubkey THEN index ELSE mapping[k]]
                     ELSE mapping
         IN FillMapping(Tail(validators), next)

EmptyMapping == [k \in {} |-> PyNone]

\* load_index_map_from_json on the file's content: any exception, among them
\* a pubkey that is no string, returns the empty mapping.
load_index_map_from_json(file) ==
    IF file.kind # "doc" THEN EmptyMapping
    ELSE IF ~file.has_validators THEN EmptyMapping
    ELSE IF \E j \in DOMAIN file.validators :
                file.validators[j].pubkey.t \notin {"absent", "chars"}
         THEN EmptyMapping
    ELSE FillMapping(file.validators, EmptyMapping)

\* ----------------------------------------------------------------- main

\* pc is the place main() has reached; uncaught names the exception that
\* ended the run with a traceback; requests is the log of the requests sent
\* to the node, each with whether it failed. calc_in and calc_out are the
\* arguments and the outcome of a call of calculate_withdrawal_info on its
\* own.
VARIABLES pc, args, config, genesis_time, pubkeys, index_map, skipped_count,
          validators_to_check, results, csv_file, report, uncaught,
          requests, calc_in, calc_out

vars == <<pc, args, config, genesis_time, pubkeys, index_map, skipped_count,
          validators_to_check, results, csv_file, report, uncaught,
          requests, calc_in, calc_out>>

\* Variant: a pubkey missing from the index map is looked up by pubkey.
BuildWorkList_Fallback(pks, json, mapping, acc) ==
    [list |-> [j \in DOMAIN pks |->
                 [ident |-> IF Truthy(json) /\ pks[j] \in DOMAIN mapping
                            THEN mapping[pks[j]] ELSE PyChars(pks[j]),
                  original_pk |-> PyChars(pks[j])]],
     skipped |-> 0]

RECURSIVE BuildWorkList(_, _, _, _)
\* The loop over pubkeys that prepares validators_to_check and skipped_count.
BuildWorkList(pks, json, mapping, acc) ==
    IF pks = <<>> THEN acc
    ELSE LET pk == Head(pks)
             next ==
                 IF Truthy(json)
                 THEN IF pk \in DOMAIN mapping
                      THEN [acc EXCEPT !.list = Append(@,
                               [ident |-> mapping[pk], original_pk |-> PyChars(pk)])]
                      ELSE [acc EXCEPT !.skipped = @ + 1]
                 ELSE [acc EXCEPT !.list = Append(@,
                          [ident |-> PyChars(pk), original_pk |-> PyChars(pk)])]
         IN BuildWorkList(Tail(pks), json, mapping, next)

\* Variant: the row of a failed fetch carries no sentinel epoch.
NotFoundResult_NoSentinel(ident, original_pk) ==
    [t |-> "dict",
     pubkey |-> IF Truthy(original_pk) THEN original_pk ELSE ident,
     index |-> Absent,
     status |-> Absent,
     withdrawable_epoch |-> PyNone,
     withdrawable_time_iso |-> PyStr("Error/NotFound"),
     time_remaining |-> Absent,
     is_withdrawable |-> Absent,
     note |-> PyStr("Validator not found on chain"),
     effective_balance_gno |-> Absent]

\* The dict appended for a validator whose fetch returned nothing.
NotFoundResult(ident, original_pk) ==
    [t |-> "dict",
     pubkey |-> IF Truthy(original_pk) THEN original_pk ELSE ident,
     index |-> Absent,
     status |-> Absent,
     withdrawable_epoch |-> PyStr("Error/NotFound"),
     withdrawable_time_iso |-> PyStr("Error/NotFound"),
     time_remaining |-> Absent,
     is_withdrawable |-> Absent,
     note |-> PyStr("Validator not found on chain"),
     effective_balance_gno |-> Absent]

\* r.get(k, '') and r.get(k)
GetOrEmpty(x) == IF x.t = "absent" THEN PyStr("") ELSE x
GetOrNone(x) == IF x.t = "absent" THEN PyNone ELSE x

\* One CSV row: the result cut to the seven columns.
CsvRow(r) ==
    [pubkey |-> GetOrEmpty(r.pubkey),
     withdrawable_epoch |-> GetOrEmpty(r.withdrawable_epoch),
     withdrawable_time_iso |-> GetOrEmpty(r.withdrawable_time_iso),
     time_remaining |-> GetOrEmpty(r.time_remaining),
     effective_balance_gno |-> GetOrEmpty(r.effective_balance_gno),
     status |-> GetOrEmpty(r.status),
     note |-> GetOrEmpty(r.note)]

\* The console report of the single mode; a line not printed is Absent.
Report(r) ==
    [t |-> "report",
     pubkey |-> GetOrNone(r.pubkey),
     index |-> GetOrNone(r.index),
     status |-> GetOrNone(r.status),
     withdrawable_epoch |-> GetOrNone(r.withdrawable_epoch),
     withdrawable_time_iso |-> GetOrNone(r.withdrawable_time_iso),
     time_remaining |-> IF Truthy(GetOrNone(r.time_remaining))
                        THEN r.time_remaining ELSE Absent,
     note |-> IF Truthy(GetOrNone(r.note)) THEN r.note ELSE Absent]

\* --------------------------------------------------------------- inputs

\* What the node may answer for a numeric field: a missing key, a text that
\* is no integer, or the decimal text of a number.
Fields(numbers) == {Absent, NotAnInteger} \cup {Decimal(n) : n \in numbers}

SecondsPerSlotValues == {0, 12}
SlotsPerEpochValues == {32}
GenesisValues == {0, 1638993340}

ConfigResponses ==
    {[kind |-> "error"]} \cup
    {[kind |-> "ok", SECONDS_PER_SLOT |-> a, SLOTS_PER_EPOCH |-> b] :
        a \in Fields(SecondsPerSlotValues), b \in Fields(SlotsPerEpochValues)}

GenesisResponses ==
    {[kind |-> "error"]} \cup
    {[kind |-> "ok", genesis_time |-> g] : g \in Fields(GenesisValues)}

UnsetEpoch == Big(<<18, 446, 744, 73, 709, 551, 615>>)
EpochValues ==
    {Big(<<50>>), Big(<<100>>), FAR_FUTURE, BigAdd(FAR_FUTURE, BigFromInt(1)),
     UnsetEpoch}
NodeEpochValues == {Big(<<100>>), UnsetEpoch}

WellFormed(we, ee, eff) ==
    [t |-> "dict",
     validator |-> [t |-> "dict",
                    pubkey |-> PyChars(<<"a", "a">>),
                    exit_epoch |-> Decimal(ee),
                    withdrawable_epoch |-> Decimal(we),
                    effective_balance |-> eff],
     status |-> PyStr("exited_unslashed"),
     index |-> PyStr("7")]

\* Bodies that lack one field or hold a field that is no integer.
Malformed ==
    LET d == WellFormed(Big(<<100>>), Big(<<50>>), Decimal(GnoUnit))
    IN {[d EXCEPT !.validator = Absent],
        [d EXCEPT !.status = Absent],
        [d EXCEPT !.index = Absent],
        [d EXCEPT !.validator.pubkey = Absent],
        [d EXCEPT !.validator.exit_epoch = Absent],
        [d EXCEPT !.validator.exit_epoch = NotAnInteger],
        [d EXCEPT !.validator.withdrawable_epoch = Absent],
        [d EXCEPT !.validator.withdrawable_epoch = NotAnInteger],
        [d EXCEPT !.validator.effective_balance = NotAnInteger]}

EmptyData == [t |-> "emptydict"]

ValidatorDatas(epochs, balances) ==
    {WellFormed(we, ee, eff) : we \in epochs, ee \in epochs, eff \in balances}
    \cup Malformed

ValidatorResponses ==
    {[kind |-> "http_error", status |-> 404],
     [kind |-> "http_error", status |-> 500],
     [kind |-> "exception"]} \cup
    {[kind |-> "ok", data |-> d] :
        d \in ValidatorDatas(NodeEpochValues, {Decimal(GnoUnit)}) \cup {EmptyData}}

\* The clock: seconds since the epoch and microseconds.
NowValues ==
    {[sec |-> 1639031740, us |-> 0], [sec |-> 1639031739, us |-> 999999]}

\* The keys of the operators file: hex strings in either case, and a key
\* YAML reads as a number (an unquoted 0xab).
YamlKeyItems == {PyChars(<<"A", "a">>), PyChars(<<"b", "b">>), PyInt(171)}
KeySeqs == UNION {[1..n -> YamlKeyItems] : n \in 0..MaxKeys}
Operators ==
    {[has_keys |-> FALSE, keys |-> <<>>]} \cup
    {[has_keys |-> TRUE, keys |-> ks] : ks \in KeySeqs}
RECURSIVE OperatorSeqs(_, _)
\* The lists of n operators that hold at most k keys together.
OperatorSeqs(n, k) ==
    IF n = 0 THEN {<<>>}
    ELSE LET Fitting == {o \in Operators : Len(o.keys) <= k}
             After(op) == {<<op>> \o rest :
                             rest \in OperatorSeqs(n - 1, k - Len(op.keys))}
         IN UNION {After(op) : op \in Fitting}
YamlFiles ==
    {[kind |-> "unreadable"],
     [kind |-> "doc", has_operators |-> FALSE, operators |-> <<>>]} \cup
    {[kind |-> "doc", has_operators |-> TRUE, operators |-> ops] :
        ops \in UNION {OperatorSeqs(n, MaxKeys) : n \in 0..MaxOps}}

MapEntries ==
    {[pubkey |-> PyChars(<<"A", "A">>), index |-> PyInt(7)],
     [pubkey |-> PyChars(<<"b", "b">>), index |-> PyInt(7)],
     [pubkey |-> PyChars(<<"b", "b">>), index |-> PyInt(8)],
     [pubkey |-> Absent, index |-> PyInt(7)],
     [pubkey |-> PyChars(<<"a", "a">>), index |-> PyNone],
     [pubkey |-> PyInt(171), index |-> PyInt(7)]}
JsonFiles ==
    {[kind |-> "unreadable"],
     [kind |-> "doc", has_validators |-> FALSE, validators |-> <<>>]} \cup
    {[kind |-> "doc", has_validators |-> TRUE, validators |-> vs] :
        vs \in UNION {[1..n -> MapEntries] : n \in 0..MaxMapEntries}}

\* Whether the node answered a request with a body the fetcher can use.
ConfigAnswered(resp) ==
    /\ resp.kind = "ok"
    /\ resp.SECONDS_PER_SLOT.t = "decimal"
    /\ resp.SLOTS_PER_EPOCH.t = "decimal"
GenesisAnswered(resp) == resp.kind = "ok" /\ resp.genesis_time.t = "decimal"

\* ------------------------------------------------------------- main()

\* parse_args: the command line is the run's input.
Init ==
    /\ pc = "config"
    /\ args \in [validator_id : {PyNone, PyChars(<<"7">>)},
                 yaml : {PyNone, PyStr("keys.yaml")},
                 json : {PyNone, PyStr("map.json")}]
    /\ config = PyNone
    /\ genesis_time = PyNone
    /\ pubkeys = <<>>
    /\ index_map = EmptyMapping
    /\ skipped_count = 0
    /\ validators_to_check = <<>>
    /\ results = <<>>
    /\ csv_file = PyNone
    /\ report = PyNone
    /\ uncaught = ""
    /\ requests = <<>>
    /\ calc_in = PyNone
    /\ calc_out = PyNone

\* 1. Init Chain Config: the spec request, and the exit when it failed.
FetchChainConfig ==
    /\ pc = "config"
    /\ \E resp \in ConfigResponses :
          /\ config' = get_chain_config(resp)
          /\ pc' = IF ~Truthy(config') THEN "exit_config" ELSE "genesis"
          /\ requests' = Append(requests,
                 [to |-> "config", failed |-> ~ConfigAnswered(resp)])
    /\ UNCHANGED <<args, genesis_time, pubkeys, index_map, skipped_count,
                   validators_to_check, results, csv_file, report,
                   uncaught, calc_in, calc_out>>

\* The genesis request, and the exit when `not genesis_time`.
FetchGenesisTime ==
    /\ pc = "genesis"
    /\ \E resp \in GenesisResponses :
          /\ genesis_time' = get_genesis_time(resp)
          /\ pc' = IF ~Truthy(genesis_time') THEN "exit_genesis" ELSE "mode"
          /\ requests' = Append(requests,
                 [to |-> "genesis", failed |-> ~GenesisAnswered(resp)])
    /\ UNCHANGED <<args, config, pubkeys, index_map, skipped_count,
                   validators_to_check, results, csv_file, report,
                   uncaught, calc_in, calc_out>>

\* 2. Determine Mode, a positional identifier given.
SingleMode ==
    /\ pc = "mode"
    /\ Truthy(args.validator_id)
    /\ validators_to_check' =
           <<[ident |-> args.validator_id, original_pk |-> PyNone]>>
    /\ pc' = "process"
    /\ UNCHANGED <<args, config, genesis_time, pubkeys, index_map, skipped_count,
                   results, csv_file, report, uncaught, requests,
                   calc_in, calc_out>>

\* 2. Determine Mode, --yaml given without an identifier: the keys are loaded
\* and, with no --json, the work list is prepared from them.
LoadKeys ==
    /\ pc = "mode"
    /\ ~Truthy(args.validator_id)
    /\ Truthy(args.yaml)
    /\ \E file \in YamlFiles :
          LET loaded == load_keys_from_yaml(file)
              work == BuildWorkList(loaded.value, args.json, EmptyMapping,
                                    [list |-> <<>>, skipped |-> 0])
          IN IF loaded.raised # ""
             THEN /\ pc' = "crashed"
                  /\ uncaught' = loaded.raised
                  /\ UNCHANGED <<pubkeys, validators_to_check, skipped_count>>
             ELSE /\ pubkeys' = loaded.value
                  /\ uncaught' = uncaught
                  /\ IF Truthy(args.json)
                     THEN /\ pc' = "index_map"
                          /\ UNCHANGED <<validators_to_check, skipped_count>>
                     ELSE /\ pc' = "process"
                          /\ validators_to_check' = work.list
                          /\ skipped_count' = work.skipped
    /\ UNCHANGED <<args, config, genesis_time, index_map, results,
                   csv_file, report, requests, calc_in, calc_out>>

\* --json given: the index map is loaded and the work list prepared with it.
LoadIndexMap ==
    /\ pc = "index_map"
    /\ \E file \in JsonFiles :
          LET mapping == load_index_map_from_json(file)
              work == BuildWorkList(pubkeys, args.json, mapping,
                                    [list |-> <<>>, skipped |-> 0])
          IN /\ index_map' = mapping
             /\ validators_to_check' = work.list
             /\ skipped_count' = work.skipped
    /\ pc' = "process"
    /\ UNCHANGED <<args, config, genesis_time, pubkeys, results,
                   csv_file, report, uncaught, requests, calc_in, calc_out>>

\* Neither an identifier nor --yaml: the usage message and return.
UsageError ==
    /\ pc = "mode"
    /\ ~Truthy(args.validator_id)
    /\ ~Truthy(args.yaml)
    /\ pc' = "exit_usage"
    /\ UNCHANGED <<args, config, genesis_time, pubkeys, index_map, skipped_count,
                   validators_to_check, results, csv_file, report,
                   uncaught, requests, calc_in, calc_out>>

\* 3. Process Validators: one iteration of the loop, for the item after the
\* ones that have a result.
ProcessValidator ==
    /\ pc = "process"
    /\ Len(results) < Len(validators_to_check)
    /\ LET item == validators_to_check[Len(results) + 1]
       IN \E resp \in ValidatorResponses, now \in NowValues :
            LET val_data == fetch_validator_data(resp) IN
            /\ requests' = Append(requests,
                   [to |-> "validator", failed |-> resp.kind # "ok"])
            /\ IF Truthy(val_data)
               THEN LET info == calculate_withdrawal_info(
                                    val_data, genesis_time.v,
                                    config.SLOTS_PER_EPOCH,
                                    config.SECONDS_PER_SLOT, now)
                    IN IF info.raised # ""
                       THEN /\ pc' = "crashed"
                            /\ uncaught' = info.raised
                            /\ results' = results
                       ELSE /\ pc' = "process"
                            /\ uncaught' = uncaught
                            /\ results' = Append(results, info.value)
               ELSE /\ pc' = "process"
                    /\ uncaught' = uncaught
                    /\ results' = Append(results,
                                      NotFoundResult(item.ident, item.original_pk))
    /\ UNCHANGED <<args, config, genesis_time, pubkeys, index_map, skipped_count,
                   validators_to_check, csv_file, report, calc_in, calc_out>>

\* 4. Output, --yaml given: the CSV file with a row for every result, or the
\* message and no usable file when opening or writing it failed.
WriteCsv ==
    /\ pc = "process"
    /\ Len(results) = Len(validators_to_check)
    /\ Truthy(args.yaml)
    /\ \E written \in BOOLEAN :
          csv_file' = IF written
                      THEN [t |-> "file",
                            rows |-> [j \in DOMAIN results |-> CsvRow(results[j])]]
                      ELSE PyNone
    /\ pc' = "done"
    /\ UNCHANGED <<args, config, genesis_time, pubkeys, index_map, skipped_count,
                   validators_to_check, results, report, uncaught,
                   requests, calc_in, calc_out>>

\* 4. Output, no --yaml: the report of the first result.
PrintReport ==
    /\ pc = "process"
    /\ Len(results) = Len(validators_to_check)
    /\ ~Truthy(args.yaml)
    /\ report' = IF results = <<>> THEN [t |-> "nodata"] ELSE Report(results[1])
    /\ pc' = "done"
    /\ UNCHANGED <<args, config, genesis_time, pubkeys, index_map, skipped_count,
                   validators_to_check, results, csv_file, uncaught,
                   requests, calc_in, calc_out>>

Next ==
    \/ FetchChainConfig
    \/ FetchGenesisTime
    \/ SingleMode
    \/ LoadKeys
    \/ LoadIndexMap
    \/ UsageError
    \/ ProcessValidator
    \/ WriteCsv
    \/ PrintReport

Spec == Init /\ [][Next]_vars

\* ------------------------------------- calculate_withdrawal_info alone

CalcSecondsPerSlot == {-12, 0, 5, 12}
CalcSlotsPerEpoch == {0, 16, 32}
CalcGenesis == {-1, 0, 1638993340}
CalcNow == NowValues \cup {[sec |-> 38400, us |-> 0], [sec |-> 1639031740, us |-> 1]}
CalcBalances == {Absent, Decimal(BigZero), Decimal(GnoUnit)}

CalcInit ==
    /\ pc = "calc"
    /\ args = [validator_id |-> PyNone, yaml |-> PyNone, json |-> PyNone]
    /\ config = PyNone
    /\ genesis_time = PyNone
    /\ pubkeys = <<>>
    /\ index_map = EmptyMapping
    /\ skipped_count = 0
    /\ validators_to_check = <<>>
    /\ results = <<>>
    /\ csv_file = PyNone
    /\ report = PyNone
    /\ uncaught = ""
    /\ requests = <<>>
    /\ calc_in \in [validator_data : ValidatorDatas(EpochValues, CalcBalances)
                                       \cup {EmptyData, PyNone},
                    genesis_time : CalcGenesis,
                    slots_per_epoch : CalcSlotsPerEpoch,
                    seconds_per_slot : CalcSecondsPerSlot,
                    now : CalcNow]
    /\ calc_out = PyNone

Calculate ==
    /\ pc = "calc"
    /\ calc_out' = calculate_withdrawal_info(
                       calc_in.validator_data, calc_in.genesis_time,
                       calc_in.slots_per_epoch, calc_in.seconds_per_slot,
                       calc_in.now)
    /\ pc' = "calculated"
    /\ UNCHANGED <<args, config, genesis_time, pubkeys, index_map, skipped_count,
                   validators_to_check, results, csv_file, report, uncaught,
                   requests, calc_in>>

CalcNext == Calculate

CalcSpec == CalcInit /\ [][CalcNext]_vars

\* ---------------------------------------------------------------- claims

\* A body with every field calculate_withdrawal_info reads before it
\* branches, the epochs being integers.
IsValidatorRecord(d) ==
    /\ d.t = "dict"
    /\ d.validator.t = "dict"
    /\ d.status.t # "absent"
    /\ d.index.t # "absent"
    /\ d.validator.pubkey.t # "absent"
    /\ d.validator.exit_epoch.t = "decimal"
    /\ d.validator.withdrawable_epoch.t = "decimal"

Calculated == pc = "calculated" /\ IsValidatorRecord(calc_in.validator_data)
InWithdrawableEpoch == calc_in.validator_data.validator.withdrawable_epoch.v
InExitEpoch == calc_in.validator_data.validator.exit_epoch.v
\* genesis_time + epoch * slots_per_epoch * seconds_per_slot of the call.
ExpectedTime(epoch) ==
    BigAdd(BigFromInt(calc_in.genesis_time),
           BigMul(epoch, calc_in.slots_per_epoch * calc_in.seconds_per_slot))

\* C1: for a record with withdrawable_epoch <= FAR_FUTURE and any chain
\* parameters, the withdrawal timestamp computed is exactly genesis_time +
\* withdrawable_epoch * slots_per_epoch * seconds_per_slot, and a result
\* returned holds that instant and the numeric withdrawable_epoch.
C1_WithdrawalTimestampExact ==
    (Calculated /\ BigLeq(InWithdrawableEpoch, FAR_FUTURE)) =>
        /\ calc_out.withdrawal_timestamp.t = "int"
        /\ calc_out.withdrawal_timestamp.v = ExpectedTime(InWithdrawableEpoch)
        /\ calc_out.raised = "" =>
              /\ calc_out.value.withdrawable_epoch.t = "int"
              /\ calc_out.value.withdrawable_epoch.v = InWithdrawableEpoch
              /\ calc_out.value.withdrawable_time_iso.t = "iso"
              /\ calc_out.value.withdrawable_time_iso.v =
                     ExpectedTime(InWithdrawableEpoch)

\* genesis 0, 12 s slots, 32 slots an epoch, epoch 100: 38,400 s.
C1_Witness ==
    /\ Calculated
    /\ calc_in.genesis_time = 0
    /\ calc_in.seconds_per_slot = 12
    /\ calc_in.slots_per_epoch = 32
    /\ InWithdrawableEpoch = Big(<<100>>)
    /\ calc_out.raised = ""
    /\ calc_out.withdrawal_timestamp.v = Big(<<38, 400>>)
    /\ calc_out.value.withdrawable_epoch.v = Big(<<100>>)

\* C2: for a record with withdrawable_epoch > FAR_FUTURE the result is
\* "Pending" / "N/A"; with exit_epoch <= FAR_FUTURE (FAR_FUTURE included) the
\* note is the exit-queue note with the estimate genesis_time + exit_epoch *
\* slots_per_epoch * seconds_per_slot, and only with exit_epoch > FAR_FUTURE
\* is it the "active, not exited" note.
C2_ExitQueueUpToFarFuture ==
    (Calculated /\ BigGreater(InWithdrawableEpoch, FAR_FUTURE)) =>
        /\ calc_out.raised = ""
        /\ calc_out.value.withdrawable_epoch.t = "str"
        /\ calc_out.value.withdrawable_epoch.v = "Pending"
        /\ calc_out.value.withdrawable_time_iso.t = "str"
        /\ calc_out.value.withdrawable_time_iso.v = "N/A"
        /\ IF BigLeq(InExitEpoch, FAR_FUTURE)
           THEN /\ calc_out.value.note.t = "exit_note"
                /\ calc_out.value.note.v = isoformat(ExpectedTime(InExitEpoch))
           ELSE /\ calc_out.value.note.t = "str"
                /\ calc_out.value.note.v = "Active (not exited)"

\* C3: for a record with a scheduled withdrawable epoch, is_withdrawable is
\* true exactly when withdrawal_time <= current_time (the clock being sec +
\* us / 10^6 with us < 10^6, an integer time is <= it exactly when it is
\* <= sec); then time_remaining is "0:00:00" and the note "Eligible for
\* sweep", and otherwise no such note is set.
C3_WithdrawableIffDue ==
    (Calculated /\ BigLeq(InWithdrawableEpoch, FAR_FUTURE) /\ calc_out.raised = "") =>
        LET due == BigLeq(ExpectedTime(InWithdrawableEpoch),
                          BigFromInt(calc_in.now.sec))
            r == calc_out.value
        IN /\ r.is_withdrawable = due
           /\ due => /\ r.time_remaining.t = "str"
                      /\ r.time_remaining.v = "0:00:00"
                      /\ r.note.t = "str"
                      /\ r.note.v = "Eligible for sweep"
           /\ ~due => /\ r.time_remaining.t = "timedelta"
                       /\ r.note.t = "absent"

\* withdrawal_time = current_time to the microsecond, classified withdrawable.
C3_Witness ==
    /\ Calculated
    /\ calc_out.raised = ""
    /\ calc_out.withdrawal_timestamp.t = "int"
    /\ calc_out.withdrawal_timestamp.v = BigFromInt(calc_in.now.sec)
    /\ calc_in.now.us = 0
    /\ calc_out.value.is_withdrawable = TRUE
    /\ calc_out.value.time_remaining.v = "0:00:00"

BatchMode == ~Truthy(args.validator_id) /\ Truthy(args.yaml)
InIndexMap(pk) == pk \in DOMAIN index_map

\* C4: in batch mode with an index map, the work list is the pubkeys present
\* in the map, in key-file order with duplicates, each with its mapped index
\* as identifier, and its length plus the skipped count is the number of
\* pubkeys; with no index map every pubkey is its own identifier and none
\* is skipped.
C4_WorkListFromIndexMap ==
    (BatchMode /\ pc \in {"process", "done"}) =>
        IF Truthy(args.json)
        THEN LET kept == SelectSeq(pubkeys, InIndexMap)
             IN /\ Len(validators_to_check) = Len(kept)
                /\ \A j \in 1..Len(kept) :
                      /\ validators_to_check[j].ident = index_map[kept[j]]
                      /\ validators_to_check[j].original_pk = PyChars(kept[j])
                /\ Len(validators_to_check) + skipped_count = Len(pubkeys)
        ELSE /\ Len(validators_to_check) = Len(pubkeys)
             /\ \A j \in 1..Len(pubkeys) :
                   /\ validators_to_check[j].ident = PyChars(pubkeys[j])
                   /\ validators_to_check[j].original_pk = PyChars(pubkeys[j])
             /\ skipped_count = 0

\* Three pubkeys, two of them in the map: two entries, one skipped.
C4_Witness ==
    /\ BatchMode
    /\ pc = "process"
    /\ Truthy(args.json)
    /\ Len(pubkeys) = 3
    /\ Len(validators_to_check) = 2
    /\ skipped_count = 1

IsValidatorRequest(q) == q.to = "validator"
ValidatorRequests == SelectSeq(requests, IsValidatorRequest)
IsNotFoundRow(r, item) ==
    /\ r.withdrawable_epoch.t = "str"
    /\ r.withdrawable_epoch.v = "Error/NotFound"
    /\ r.withdrawable_time_iso.t = "str"
    /\ r.withdrawable_time_iso.v = "Error/NotFound"
    /\ r.pubkey = IF item.original_pk.t = "None" THEN item.ident
                  ELSE item.original_pk

\* C5: a validator fetch that fails, at any position, adds one result with
\* the "Error/NotFound" sentinels for that work-list item and the loop goes
\* on; after the loop the results are one per work-list item, in order.
C5_FailedFetchRecorded ==
    /\ Len(results) <= Len(validators_to_check)
    /\ pc = "done" => Len(results) = Len(validators_to_check)
    /\ \A j \in 1..Len(ValidatorRequests) :
          ValidatorRequests[j].failed =>
              /\ j <= Len(results)
              /\ IsNotFoundRow(results[j], validators_to_check[j])
              /\ pc \in {"process", "done"}
                    \/ (pc = "crashed" /\ j < Len(ValidatorRequests))

\* The second of three fetches failed and the loop went on to the third.
C5_Witness ==
    /\ pc = "done"
    /\ Len(results) = 3
    /\ ~ValidatorRequests[1].failed
    /\ results[1].withdrawable_epoch.t = "int"
    /\ ValidatorRequests[2].failed
    /\ ~ValidatorRequests[3].failed
    /\ results[2].withdrawable_epoch.t = "str"
    /\ results[2].withdrawable_epoch.v = "Error/NotFound"
    /\ results[3].withdrawable_epoch.t = "int"

SetupFailed ==
    \E j \in DOMAIN requests :
        requests[j].to \in {"config", "genesis"} /\ requests[j].failed

\* C6: when the chain-config fetch or the genesis fetch fails the run ends
\* there: no validator is fetched, no CSV file written, no report printed;
\* no genesis fetch follows a failed config fetch, and a validator is
\* fetched only after both setup fetches succeeded.
C6_SetupFailureAborts ==
    /\ SetupFailed =>
          /\ pc \in {"exit_config", "exit_genesis"}
          /\ ~ENABLED Next
          /\ ValidatorRequests = <<>>
          /\ results = <<>>
          /\ csv_file.t = "None"
          /\ report.t = "None"
    /\ (requests # <<>> /\ requests[1].failed) => Len(requests) = 1
    /\ \A j \in DOMAIN requests :
          requests[j].to = "validator" =>
              /\ j > 2
              /\ requests[1] = [to |-> "config", failed |-> FALSE]
              /\ requests[2] = [to |-> "genesis", failed |-> FALSE]

\* The genesis fetch failed after a config fetch that succeeded.
C6_Witness ==
    /\ Len(requests) = 2
    /\ ~requests[1].failed
    /\ requests[2].failed
    /\ pc = "exit_genesis"

\* C7: with the node reporting genesis_time 0, 12 s slots and 32 slots an
\* epoch, the genesis time is accepted and the run goes on to the
\* validators.
C7_GenesisZeroAccepted ==
    (/\ Len(requests) >= 2
     /\ ~requests[1].failed
     /\ ~requests[2].failed
     /\ config.SECONDS_PER_SLOT = 12
     /\ config.SLOTS_PER_EPOCH = 32
     /\ genesis_time.t = "int"
     /\ genesis_time.v = 0)
        => pc \notin {"exit_config", "exit_genesis"}

\* C8: exactly one of the identifier and the key file is supplied: a run
\* given neither ends in the usage error with nothing fetched or emitted, a
\* run that fetches validators was given exactly one of them, the CSV file
\* is written only for a work list from the key file and the report only
\* for the identifier.
C8_ExactlyOneInput ==
    /\ (~Truthy(args.validator_id) /\ ~Truthy(args.yaml)) =>
          /\ ValidatorRequests = <<>>
          /\ csv_file.t = "None"
          /\ report.t = "None"
          /\ pc \in {"config", "genesis", "mode", "exit_config", "exit_genesis",
                      "exit_usage"}
    /\ (ValidatorRequests # <<>> \/ csv_file.t # "None" \/ report.t # "None") =>
          Truthy(args.validator_id) # Truthy(args.yaml)
    /\ csv_file.t # "None" => BatchMode
    /\ report.t # "None" => (Truthy(args.validator_id) /\ ~Truthy(args.yaml))

IsComputedRow(r) == r.withdrawable_epoch.t = "int" \/ r.withdrawable_epoch.v = "Pending"

\* C9: chain parameters are returned only with positive seconds_per_slot and
\* slots_per_epoch, so no result is ever calculated with a non-positive one.
C9_PositiveChainParameters ==
    (\E j \in DOMAIN results : IsComputedRow(results[j])) =>
        /\ config.SECONDS_PER_SLOT > 0
        /\ config.SLOTS_PER_EPOCH > 0

\* C10: no input ends the run with an uncaught error.
C10_NoUncaughtError == pc # "crashed" /\ uncaught = ""

====
